---- MODULE Spec2Model ----
(***************************************************************************)
(* A model of mdbook-numthm (src/src/lib.rs): the preprocessor that        *)
(* numbers theorem-like environments ({{thm}}{label}[title]) and resolves  *)
(* references to them ({{ref: label}}, {{tref: label}}).                   *)
(*                                                                         *)
(* Text is a sequence of one-character strings; the two regular            *)
(* expressions of the source are matched character by character, and the   *)
(* replacement closures of Regex::replace_all are the steps of the model.  *)
(***************************************************************************)
EXTENDS Naturals, Sequences, FiniteSets

VARIABLES
    toml_config,   \* the [preprocessor.numthm] table handed to new()
    environments,  \* NumThmPreprocessor.environments : key -> Env
    with_prefix,   \* NumThmPreprocessor.with_prefix
    book,          \* the chapters of the book, in for_each_mut order
    refs,          \* run(): HashMap<String, LabelInfo>
    pc,            \* "envs" | "refs" | "rescan" | "done" | "panic"
    idx,           \* the chapter the current for_each_mut is at
    active,        \* inside find_and_replace_envs / _refs for chapter idx
    rest,          \* the text replace_all has not scanned yet
    out,           \* the text replace_all has produced so far
    counter,       \* find_and_replace_envs: HashMap<String, u32>
    log,           \* one record per closure call, in call order
    returns,       \* one record per return of find_and_replace_*, in order
    warnings       \* the warn!() calls, in call order

vars == <<toml_config, environments, with_prefix, book, refs, pc, idx, active,
          rest, out, counter, log, returns, warnings>>

-----------------------------------------------------------------------------
(* Option<T>: None is the empty sequence, Some(x) the sequence <<x>>.      *)
None == <<>>
Some(x) == <<x>>
IsSome(o) == Len(o) = 1
Unwrap(o) == o[1]

(* Literal pieces of text, as character sequences.                         *)
LB2 == <<"{", "{">>
RB2 == <<"}", "}">>
RB1 == <<"}">>
RBR == <<"]">>
NL  == "\n"
Whitespace == {" ", "\t", NL}

RECURSIVE Concat(_)
Concat(ss) == IF ss = <<>> THEN <<>> ELSE Head(ss) \o Concat(Tail(ss))

(* format!("{}", n) of an unsigned integer: its decimal digits.            *)
Digit(d) == <<"0", "1", "2", "3", "4", "5", "6", "7", "8", "9">>[d + 1]
RECURSIVE Decimal(_)
Decimal(n) == IF n < 10 THEN <<Digit(n)>> ELSE Decimal(n \div 10) \o <<Digit(n % 10)>>

-----------------------------------------------------------------------------
(* Env and EnvMap.                                                         *)
EnvCreate(name, emph) == [name |-> name, emph |-> emph]

Bold == <<"*", "*">>
Ital == <<"*">>
K_thm  == <<"t", "h", "m">>
K_lem  == <<"l", "e", "m">>
K_prop == <<"p", "r", "o", "p">>
K_def  == <<"d", "e", "f">>
K_rem  == <<"r", "e", "m">>
N_Environment == <<"E", "n", "v", "i", "r", "o", "n", "m", "e", "n", "t">>

EnvMapDefault ==
    LET d == { <<K_thm,  EnvCreate(<<"T", "h", "e", "o", "r", "e", "m">>, Bold)>>,
               <<K_lem,  EnvCreate(<<"L", "e", "m", "m", "a">>, Bold)>>,
               <<K_prop, EnvCreate(<<"P", "r", "o", "p", "o", "s", "i", "t", "i", "o", "n">>, Bold)>>,
               <<K_def,  EnvCreate(<<"D", "e", "f", "i", "n", "i", "t", "i", "o", "n">>, Bold)>>,
               <<K_rem,  EnvCreate(<<"R", "e", "m", "a", "r", "k">>, Ital)>> }
    IN  [k \in {e[1] : e \in d} |-> (CHOOSE e \in d : e[1] = k)[2]]

MapInsert(m, k, v) == [x \in DOMAIN m \cup {k} |-> IF x = k THEN v ELSE m[x]]
MapRemove(m, k) == [x \in DOMAIN m \ {k} |-> m[x]]


-----------------------------------------------------------------------------
(* NumThmPreprocessor::new.  The configuration table is                    *)
(*   [prefix |-> Option<bool>, environments |-> <<key, value>> pairs],     *)
(* a value being a table [isTable, ignore, name, emph] or something else.  *)
TomlTable(ignore, name, emph) ==
    [isTable |-> TRUE, ignore |-> ignore, name |-> name, emph |-> emph]
TomlOther == [isTable |-> FALSE, ignore |-> None, name |-> None, emph |-> None]

UnwrapOr(o, dflt) == IF IsSome(o) THEN Unwrap(o) ELSE dflt

(* One iteration of the loop over the environments table.                  *)
ApplyEntry(envs, key, value) ==
    IF ~value.isTable THEN envs
    ELSE IF IsSome(value.ignore) /\ Unwrap(value.ignore) THEN MapRemove(envs, key)
    ELSE IF key \in DOMAIN envs
         THEN [envs EXCEPT ![key] = [name |-> UnwrapOr(value.name, @.name),
                                     emph |-> UnwrapOr(value.emph, @.emph)]]
         ELSE MapInsert(envs, key,
                        EnvCreate(UnwrapOr(value.name, N_Environment),
                                  UnwrapOr(value.emph, Bold)))

RECURSIVE ApplyEntries(_, _)
ApplyEntries(envs, entries) ==
    IF entries = <<>> THEN envs
    ELSE ApplyEntries(ApplyEntry(envs, Head(entries)[1], Head(entries)[2]), Tail(entries))

NewEnvironments(cfg) == ApplyEntries(EnvMapDefault, cfg.environments)
NewWithPrefix(cfg) == UnwrapOr(cfg.prefix, FALSE)

-----------------------------------------------------------------------------
(* The regular expressions, matched as the regex crate matches them        *)
(* (leftmost match, alternatives and repetitions by priority).             *)

IsPrefixAt(s, p, lit) ==
    /\ p + Len(lit) - 1 <= Len(s)
    /\ \A i \in 1..Len(lit) : s[p + i - 1] = lit[i]

MinOf(S) == CHOOSE x \in S : \A y \in S : x <= y

(* `.*?` followed by the literal lit, from position p: the position of the *)
(* first lit at or after p that no newline precedes (`.` matches no        *)
(* newline); 0 when there is none.                                         *)
LazyDotUntil(s, p, lit) ==
    LET Q == {q \in p..(Len(s) + 1) :
                /\ IsPrefixAt(s, q, lit)
                /\ \A j \in p..(q - 1) : s[j] # NL}
    IN  IF Q = {} THEN 0 ELSE MinOf(Q)

(* keys.join("|") inside (?P<key>...): the alternatives of the group. The  *)
(* join of no keys is the empty pattern, which matches the empty string.   *)
KeyAlternatives(envs) == IF DOMAIN envs = {} THEN {<<>>} ELSE DOMAIN envs

(* \{\{(?P<key>K)\}\}(\{(?P<label>.*?)\})?(\[(?P<title>.*?)\])? at p.      *)
(* Both optional groups are greedy: each is taken whenever it can match.   *)
MatchEnvAt(s, p, alts) ==
    LET ks == IF IsPrefixAt(s, p, LB2)
              THEN {k \in alts : IsPrefixAt(s, p, LB2 \o k \o RB2)}
              ELSE {}
    IN  IF ks = {} THEN [ok |-> FALSE]
        ELSE
        LET k  == CHOOSE x \in ks : TRUE
            a  == p + Len(k) + 4
            lq == IF a <= Len(s) /\ s[a] = "{" THEN LazyDotUntil(s, a + 1, RB1) ELSE 0
            b  == IF lq > 0 THEN lq + 1 ELSE a
            tq == IF b <= Len(s) /\ s[b] = "[" THEN LazyDotUntil(s, b + 1, RBR) ELSE 0
            e  == IF tq > 0 THEN tq + 1 ELSE b
        IN  [ok    |-> TRUE,
             start |-> p,
             end   |-> e,
             key   |-> k,
             label |-> IF lq > 0 THEN Some(SubSeq(s, a + 1, lq - 1)) ELSE None,
             title |-> IF tq > 0 THEN Some(SubSeq(s, b + 1, tq - 1)) ELSE None]

(* The leftmost match of the environment pattern in s.                     *)
FindEnv(s, alts) ==
    LET P == {p \in 1..Len(s) : MatchEnvAt(s, p, alts).ok}
    IN  IF P = {} THEN [ok |-> FALSE] ELSE MatchEnvAt(s, MinOf(P), alts)

REF  == <<"r", "e", "f", ":">>
TREF == <<"t", "r", "e", "f", ":">>

(* The end of the longest run of whitespace starting at p (`\s*`).         *)
RECURSIVE SkipSpace(_, _)
SkipSpace(s, p) ==
    IF p <= Len(s) /\ s[p] \in Whitespace THEN SkipSpace(s, p + 1) ELSE p

(* \{\{(?P<reftype>ref:|tref:)\s*(?P<label>.*?)\}\} at p.                  *)
MatchRefAt(s, p) ==
    LET ts == IF IsPrefixAt(s, p, LB2)
              THEN {t \in {REF, TREF} : IsPrefixAt(s, p, LB2 \o t)}
              ELSE {}
    IN  IF ts = {} THEN [ok |-> FALSE]
        ELSE
        LET t == CHOOSE x \in ts : TRUE
            a == SkipSpace(s, p + 2 + Len(t))
            q == LazyDotUntil(s, a, RB2)
        IN  IF q = 0 THEN [ok |-> FALSE]
            ELSE [ok      |-> TRUE,
                  start   |-> p,
                  end     |-> q + 2,
                  reftype |-> t,
                  label   |-> SubSeq(s, a, q - 1)]

FindRef(s) ==
    LET P == {p \in 1..Len(s) : MatchRefAt(s, p).ok}
    IN  IF P = {} THEN [ok |-> FALSE] ELSE MatchRefAt(s, MinOf(P))

-----------------------------------------------------------------------------
(* Paths. A path is a sequence of tokens: directory and file names, and    *)
(* the separator "/". PathBuf compares, pops and iterates by component, so *)
(* a doubled separator adds no component.                                  *)
SEP == "/"
PARENT == ".."
CURDIR == "."

Components(path) == SelectSeq(path, LAMBDA t : t # SEP)
PathEq(p1, p2) == Components(p1) = Components(p2)
Pop(comps) == IF comps = <<>> THEN <<>> ELSE SubSeq(comps, 1, Len(comps) - 1)

(* The loop of pathdiff::diff_paths over the two component iterators;      *)
(* None when the base holds a ".." where the paths differ.                 *)
RECURSIVE DiffLoop(_, _, _)
DiffLoop(ita, itb, comps) ==
    IF ita = <<>> /\ itb = <<>> THEN Some(comps)
    ELSE IF itb = <<>> THEN Some(comps \o ita)
    ELSE IF ita = <<>> THEN DiffLoop(ita, Tail(itb), Append(comps, PARENT))
    ELSE IF comps = <<>> /\ Head(ita) = Head(itb) THEN DiffLoop(Tail(ita), Tail(itb), comps)
    ELSE IF Head(itb) = CURDIR THEN DiffLoop(Tail(ita), Tail(itb), Append(comps, Head(ita)))
    ELSE IF Head(itb) = PARENT THEN None
    ELSE Some(comps \o [i \in 1..Len(itb) |-> PARENT] \o ita)

diff_paths(path, base) == DiffLoop(Components(path), Components(base), <<>>)

(* Path::display of a path built from components: joined by "/".           *)
RECURSIVE Display(_)
Display(comps) ==
    IF comps = <<>> THEN <<>>
    ELSE IF Len(comps) = 1 THEN comps
    ELSE <<Head(comps), SEP>> \o Display(Tail(comps))

(* A relative path taken from the chapter's own path, not its directory.   *)
compute_rel_path_no_pop(chap_path, path_to_ref) ==
    IF PathEq(chap_path, path_to_ref) THEN Some(<<>>)
    ELSE LET d == diff_paths(path_to_ref, Components(chap_path))
         IN  IF IsSome(d) THEN Some(Display(Unwrap(d))) ELSE None

(* compute_rel_path: Some(string), or None where the unwrap() panics.      *)
compute_rel_path(chap_path, path_to_ref) ==
    IF PathEq(chap_path, path_to_ref) THEN Some(<<>>)
    ELSE LET local_chap_path == Pop(Components(chap_path))
             d == diff_paths(path_to_ref, local_chap_path)
         IN  IF IsSome(d) THEN Some(Display(Unwrap(d))) ELSE None

-----------------------------------------------------------------------------
(* The replacement closures.                                               *)
SP == <<" ">>
ANCHOR_OPEN  == <<"<", "a", " ", "n", "a", "m", "e", "=", "\"">>
ANCHOR_CLOSE == <<"\"", ">", "<", "/", "a", ">", NL>>
PLACEHOLDER  == <<"*", "*", "[", "?", "?", "]", "*", "*">>

(* format!("{name} {prefix}{ctr}")                                         *)
NumName(env, prefix, ctr) == env.name \o SP \o prefix \o Decimal(ctr)

(* format!("<a name=\"{label}\"></a>\n")                                   *)
Anchor(label) == ANCHOR_OPEN \o label \o ANCHOR_CLOSE

(* The header, with or without the parenthesised title.                    *)
Header(env, prefix, ctr, title) ==
    IF IsSome(title)
    THEN env.emph \o NumName(env, prefix, ctr) \o <<" ", "(">> \o Unwrap(title)
         \o <<")", ".">> \o env.emph
    ELSE env.emph \o NumName(env, prefix, ctr) \o <<".">> \o env.emph

LabelInfo(num_name, path, title) ==
    [num_name |-> num_name, path |-> path, title |-> title]

(* A closure that inserts whatever the registry holds: the last            *)
(* declaration of a label would win.                                       *)
InsertsLabelAlways(rf, label) == TRUE

(* Whether the closure of find_and_replace_envs inserts the label.         *)
InsertsLabel(rf, label) == label \notin DOMAIN rf

(* A closure that registers a declaration without a label marker under    *)
(* the empty label.                                                        *)
RefsAfterEnvDefaultLabel(rf, caps, env, prefix, ctr, path) ==
    LET label == UnwrapOr(caps.label, <<>>)
    IN  IF InsertsLabel(rf, label)
        THEN MapInsert(rf, label, LabelInfo(NumName(env, prefix, ctr), path, caps.title))
        ELSE rf

(* refs after the closure has handled the match caps.                      *)
RefsAfterEnv(rf, caps, env, prefix, ctr, path) ==
    IF IsSome(caps.label) /\ InsertsLabel(rf, Unwrap(caps.label))
    THEN MapInsert(rf, Unwrap(caps.label),
                   LabelInfo(NumName(env, prefix, ctr), path, caps.title))
    ELSE rf

(* An anchor emitted only where the label was inserted.                    *)
AnchorOnlyIfInserted(rf, caps) ==
    IF IsSome(caps.label) /\ Unwrap(caps.label) \notin DOMAIN rf
    THEN Anchor(Unwrap(caps.label))
    ELSE <<>>

(* The anchor the closure emits for the match caps.                        *)
AnchorOf(rf, caps) == IF IsSome(caps.label) THEN Anchor(Unwrap(caps.label)) ELSE <<>>

(* A replacement that leaves the kind marker in the text.                  *)
EnvReplacementKeepsMarker(rf, caps, env, prefix, ctr) ==
    LB2 \o caps.key \o RB2 \o AnchorOf(rf, caps) \o Header(env, prefix, ctr, caps.title)

(* format!("{anchor}{header}")                                             *)
EnvReplacement(rf, caps, env, prefix, ctr) ==
    AnchorOf(rf, caps) \o Header(env, prefix, ctr, caps.title)

(* A link text that is the title or nothing: no fallback for tref.         *)
LinkTextNoFallback(info, reftype) ==
    IF reftype = REF THEN info.num_name
    ELSE IF IsSome(info.title) THEN Unwrap(info.title) ELSE <<>>

(* The link text of a reference to a known label.                          *)
LinkText(info, reftype) ==
    IF reftype = REF THEN info.num_name
    ELSE IF IsSome(info.title) THEN Unwrap(info.title) ELSE info.num_name

(* format!("[{text}]({rel_path}#{label})")                                 *)
Link(text, rel_path, label) ==
    <<"[">> \o text \o <<"]", "(">> \o rel_path \o <<"#">> \o label \o <<")">>

(* A closure that unwraps the registry entry of a label it did not check.  *)
RefReplacementUnchecked(rf, caps, chap_path) ==
    IF caps.label \in DOMAIN rf
    THEN LET info == rf[caps.label]
             rel  == compute_rel_path(chap_path, info.path)
         IN  IF IsSome(rel)
             THEN Some(Link(LinkText(info, caps.reftype), Unwrap(rel), caps.label))
             ELSE None
    ELSE None

(* The closure of find_and_replace_refs: Some(replacement), or None where  *)
(* compute_rel_path panics.                                                *)
RefReplacement(rf, caps, chap_path) ==
    IF caps.label \in DOMAIN rf
    THEN LET info == rf[caps.label]
             rel  == compute_rel_path(chap_path, info.path)
         IN  IF IsSome(rel)
             THEN Some(Link(LinkText(info, caps.reftype), Unwrap(rel), caps.label))
             ELSE None
    ELSE Some(PLACEHOLDER)

-----------------------------------------------------------------------------
(* The program: the preprocessor new() built from the configuration, then *)
(* run() as its two for_each_mut passes, each call of find_and_replace_*   *)
(* as an entry, one step per closure call, and a return.                   *)

Chapter(path, content, number) ==
    [path |-> path, content |-> content, number |-> number]

(* Chapter::is_draft_chapter: a draft chapter has no path.                 *)
is_draft_chapter(ch) == ch.path = None

(* The prefix run() hands to find_and_replace_envs.                        *)
PrefixOf(ch) == IF with_prefix THEN UnwrapOr(ch.number, <<>>) ELSE <<>>

EmptyMap == [x \in {} |-> x]

(* Whether a for_each_mut loop of run() has visited every item.            *)
LoopDone(i) == i > Len(book)

EnvCall(caps, ctr, repl, known) ==
    [pass |-> pc, chap |-> idx, key |-> caps.key, ctr |-> ctr, label |-> caps.label,
     title |-> caps.title, reftype |-> None, repl |-> repl, known |-> known]

RefCall(caps, repl, known) ==
    [pass |-> pc, chap |-> idx, key |-> <<>>, ctr |-> 0, label |-> Some(caps.label),
     title |-> None, reftype |-> Some(caps.reftype), repl |-> repl, known |-> known]

Return(input, output) ==
    [pass |-> pc, chap |-> idx, input |-> input, output |-> output]

Warning(kind, label) == [kind |-> kind, label |-> label]

(* Counters that are created once and kept from chapter to chapter.        *)
KeptCounter(envs) ==
    IF DOMAIN counter = DOMAIN envs THEN counter ELSE [k \in DOMAIN envs |-> 0]

(* The counters find_and_replace_envs starts with: zero for every key.     *)
FreshCounter(envs) == [k \in DOMAIN envs |-> 0]

(* for_each_mut steps over a draft chapter (either pass).                  *)
SkipDraft ==
    /\ pc \in {"envs", "refs", "rescan"}
    /\ ~active
    /\ ~LoopDone(idx)
    /\ is_draft_chapter(book[idx])
    /\ idx' = idx + 1
    /\ UNCHANGED <<toml_config, environments, with_prefix, book, refs, pc, active,
                   rest, out, counter, log, returns, warnings>>

(* Entry of find_and_replace_envs: the counters start at zero.             *)
EnterEnvs ==
    /\ pc \in {"envs", "rescan"}
    /\ ~active
    /\ ~LoopDone(idx)
    /\ ~is_draft_chapter(book[idx])
    /\ active' = TRUE
    /\ counter' = FreshCounter(environments)
    /\ rest' = book[idx].content
    /\ out' = <<>>
    /\ UNCHANGED <<toml_config, environments, with_prefix, book, refs, pc, idx, log,
                   returns, warnings>>

(* One call of the closure of find_and_replace_envs, on the leftmost match *)
(* in the text not yet scanned. The two unwrap() of a key that is not in   *)
(* the map panic.                                                          *)
EnvMatch ==
    /\ pc \in {"envs", "rescan"}
    /\ active
    /\ LET caps == FindEnv(rest, KeyAlternatives(environments))
       IN  /\ caps.ok
           /\ IF caps.key \notin DOMAIN environments \/ caps.key \notin DOMAIN counter
              THEN /\ pc' = "panic"
                   /\ UNCHANGED <<refs, rest, out, counter, log, warnings>>
              ELSE LET env    == environments[caps.key]
                       ctr    == counter[caps.key] + 1
                       prefix == PrefixOf(book[idx])
                       path   == Unwrap(book[idx].path)
                       known  == IsSome(caps.label) /\ ~InsertsLabel(refs, Unwrap(caps.label))
                       repl   == EnvReplacement(refs, caps, env, prefix, ctr)
                   IN  /\ counter' = [counter EXCEPT ![caps.key] = ctr]
                       /\ refs' = RefsAfterEnv(refs, caps, env, prefix, ctr, path)
                       /\ warnings' = IF known
                                      THEN Append(warnings, Warning("duplicate", Unwrap(caps.label)))
                                      ELSE warnings
                       /\ out' = out \o SubSeq(rest, 1, caps.start - 1) \o repl
                       /\ rest' = SubSeq(rest, caps.end, Len(rest))
                       /\ log' = Append(log, EnvCall(caps, ctr, repl, known))
                       /\ pc' = pc
    /\ UNCHANGED <<toml_config, environments, with_prefix, book, idx, active, returns>>

(* No further match: find_and_replace_envs returns, and run() stores the   *)
(* text in the chapter.                                                    *)
LeaveEnvs ==
    /\ pc \in {"envs", "rescan"}
    /\ active
    /\ ~FindEnv(rest, KeyAlternatives(environments)).ok
    /\ book' = [book EXCEPT ![idx].content = out \o rest]
    /\ returns' = Append(returns, Return(book[idx].content, out \o rest))
    /\ active' = FALSE
    /\ idx' = idx + 1
    /\ UNCHANGED <<toml_config, environments, with_prefix, refs, pc, rest, out, counter,
                   log, warnings>>

(* A second pass that does not wait for the first one to end.              *)
StartRefsEarly ==
    /\ pc = "envs"
    /\ ~active
    /\ pc' = "refs"
    /\ idx' = 1
    /\ UNCHANGED <<toml_config, environments, with_prefix, book, refs, active, rest, out,
                   counter, log, returns, warnings>>

(* The first for_each_mut is over: the second one starts.                  *)
StartRefs ==
    /\ pc = "envs"
    /\ ~active
    /\ LoopDone(idx)
    /\ pc' = "refs"
    /\ idx' = 1
    /\ UNCHANGED <<toml_config, environments, with_prefix, book, refs, active, rest, out,
                   counter, log, returns, warnings>>

EnterRefs ==
    /\ pc = "refs"
    /\ ~active
    /\ ~LoopDone(idx)
    /\ ~is_draft_chapter(book[idx])
    /\ active' = TRUE
    /\ rest' = book[idx].content
    /\ out' = <<>>
    /\ UNCHANGED <<toml_config, environments, with_prefix, book, refs, pc, idx, counter,
                   log, returns, warnings>>

(* One call of the closure of find_and_replace_refs.                       *)
RefMatch ==
    /\ pc = "refs"
    /\ active
    /\ LET caps == FindRef(rest)
       IN  /\ caps.ok
           /\ LET known == caps.label \in DOMAIN refs
                  repl  == RefReplacement(refs, caps, Unwrap(book[idx].path))
              IN  IF IsSome(repl)
                  THEN /\ out' = out \o SubSeq(rest, 1, caps.start - 1) \o Unwrap(repl)
                       /\ rest' = SubSeq(rest, caps.end, Len(rest))
                       /\ warnings' = IF known THEN warnings
                                      ELSE Append(warnings, Warning("unknown", caps.label))
                       /\ log' = Append(log, RefCall(caps, Unwrap(repl), known))
                       /\ pc' = pc
                  ELSE /\ pc' = "panic"
                       /\ UNCHANGED <<rest, out, log, warnings>>
    /\ UNCHANGED <<toml_config, environments, with_prefix, book, refs, idx, active,
                   counter, returns>>

LeaveRefs ==
    /\ pc = "refs"
    /\ active
    /\ ~FindRef(rest).ok
    /\ book' = [book EXCEPT ![idx].content = out \o rest]
    /\ returns' = Append(returns, Return(book[idx].content, out \o rest))
    /\ active' = FALSE
    /\ idx' = idx + 1
    /\ UNCHANGED <<toml_config, environments, with_prefix, refs, pc, rest, out, counter,
                   log, warnings>>

(* run() returns Ok(book).                                                 *)
Finish ==
    /\ pc = "refs"
    /\ ~active
    /\ LoopDone(idx)
    /\ pc' = "done"
    /\ UNCHANGED <<toml_config, environments, with_prefix, book, refs, idx, active, rest,
                   out, counter, log, returns, warnings>>

Next ==
    \/ SkipDraft
    \/ EnterEnvs
    \/ EnvMatch
    \/ LeaveEnvs
    \/ StartRefs
    \/ EnterRefs
    \/ RefMatch
    \/ LeaveRefs
    \/ Finish

-----------------------------------------------------------------------------
(* Inputs. A text is the concatenation of a few items; the items of a book *)
(* are spread over its chapters.                                           *)

MaxItems == 3

L_a == <<"a">>
L_b == <<"b">>

Marker(key) == LB2 \o key \o RB2
Decl(key, label, title) ==
    Marker(key)
    \o (IF IsSome(label) THEN <<"{">> \o Unwrap(label) \o RB1 ELSE <<>>)
    \o (IF IsSome(title) THEN <<"[">> \o Unwrap(title) \o RBR ELSE <<>>)
Ref(reftype, spaces, label) == LB2 \o reftype \o spaces \o label \o RB2

Items ==
    { Decl(K_thm, Some(L_a), Some(<<"T">>)),
      Decl(K_lem, Some(L_a), None),
      Decl(K_thm, None, Some(<<"U">>)),
      Ref(REF, SP, L_a),
      Ref(TREF, SP, L_a),
      Ref(REF, <<>>, L_b),
      Marker(K_rem) }

SeqsUpTo(S, n) == UNION {[1..k -> S] : k \in 0..n}

(* The contents of two chapters holding at most n items of S in all.       *)
TextPairs(S, n) ==
    UNION { { <<Concat(x), Concat(y)>> : y \in SeqsUpTo(S, n - Len(x)) } :
            x \in SeqsUpTo(S, n) }

P_groups == <<"math", SEP, "algebra", SEP, "groups.md">>
P_bls    == <<"math", SEP, "crypto", SEP, SEP, "signatures", SEP, "bls_signatures.md">>

DraftChapter == Chapter(None, <<>>, Some(<<"2", ".">>))

(* A numbered chapter, a draft chapter, and an unnumbered chapter.         *)
BookOf(p1, t1, p2, t2) ==
    << Chapter(Some(p1), t1, Some(<<"1", ".">>)),
       DraftChapter,
       Chapter(Some(p2), t2, None) >>

Config(prefix, envs) == [prefix |-> prefix, environments |-> envs]

InitWith(configs, books) ==
    /\ toml_config \in configs
    /\ environments = NewEnvironments(toml_config)
    /\ with_prefix = NewWithPrefix(toml_config)
    /\ book \in books
    /\ refs = EmptyMap
    /\ pc = "envs"
    /\ idx = 1
    /\ active = FALSE
    /\ rest = <<>>
    /\ out = <<>>
    /\ counter = EmptyMap
    /\ log = <<>>
    /\ returns = <<>>
    /\ warnings = <<>>

Init ==
    InitWith({Config(None, <<>>), Config(Some(TRUE), <<>>)},
             {BookOf(P_groups, t[1], P_bls, t[2]) : t \in TextPairs(Items, MaxItems)})

Spec == Init /\ [][Next]_vars

-----------------------------------------------------------------------------
(* Paths: a declaration and references to it, in two chapters whose paths  *)
(* range over directories up to MaxDepth deep, with single or doubled      *)
(* separators.                                                             *)
MaxDepth == 2

DirNames == {"a", "b"}
FileNames == {"x.md", "y.md"}

RECURSIVE PathOf(_, _, _)
PathOf(dirs, file, doubled) ==
    IF dirs = <<>> THEN <<file>>
    ELSE <<Head(dirs), SEP>> \o (IF doubled THEN <<SEP>> ELSE <<>>)
         \o PathOf(Tail(dirs), file, doubled)

Paths ==
    { PathOf(d, f, dbl) : d \in SeqsUpTo(DirNames, MaxDepth), f \in FileNames,
                          dbl \in BOOLEAN }

T_decl_and_ref == Decl(K_thm, Some(L_a), Some(<<"T">>)) \o Ref(REF, SP, L_a)
T_tref == Ref(TREF, SP, L_a)

InitPath ==
    InitWith({Config(None, <<>>)},
             {BookOf(p1, T_decl_and_ref, p2, T_tref) : p1 \in Paths, p2 \in Paths})

SpecPath == InitPath /\ [][Next]_vars

-----------------------------------------------------------------------------
(* Configurations: each default kind kept, ignored or (thm) overridden,    *)
(* and a kind of its own added; one chapter of text and a draft chapter.   *)
K_cor == <<"c", "o", "r">>
N_Satz == <<"S", "a", "t", "z">>

Ignore == TomlTable(Some(TRUE), None, None)

EntryChoices(key) ==
    IF key = K_thm THEN {None, Some(Ignore), Some(TomlTable(Some(FALSE), Some(N_Satz), Some(Ital)))}
    ELSE IF key = K_cor THEN {None, Some(TomlTable(None, None, None))}
    ELSE {None, Some(Ignore)}

ConfigKeys == <<K_thm, K_lem, K_prop, K_def, K_rem, K_cor>>

(* The tables over ConfigKeys from position i on, as <<key, value>> lists. *)
RECURSIVE EnvTables(_)
EnvTables(i) ==
    IF i > Len(ConfigKeys) THEN {<<>>}
    ELSE { (IF IsSome(c) THEN << <<ConfigKeys[i], Unwrap(c)>> >> ELSE <<>>) \o t :
             c \in EntryChoices(ConfigKeys[i]), t \in EnvTables(i + 1) }

CfgItems ==
    { Marker(<<>>),
      Decl(K_thm, Some(L_a), None),
      Marker(K_cor),
      Ref(REF, SP, L_a) }

InitCfg ==
    InitWith({Config(None, t) : t \in EnvTables(1)},
             { <<Chapter(Some(P_groups), Concat(x), Some(<<"1", ".">>)), DraftChapter>> :
                 x \in SeqsUpTo(CfgItems, MaxItems) })

SpecCfg == InitCfg /\ [][Next]_vars

-----------------------------------------------------------------------------
(* Scanning twice: after the first pass, find_and_replace_envs is applied  *)
(* again to every chapter's rewritten text.                                *)
StartRescan ==
    /\ pc = "envs"
    /\ ~active
    /\ LoopDone(idx)
    /\ pc' = "rescan"
    /\ idx' = 1
    /\ UNCHANGED <<toml_config, environments, with_prefix, book, refs, active, rest, out,
                   counter, log, returns, warnings>>

FinishRescan ==
    /\ pc = "rescan"
    /\ ~active
    /\ LoopDone(idx)
    /\ pc' = "done"
    /\ UNCHANGED <<toml_config, environments, with_prefix, book, refs, idx, active, rest,
                   out, counter, log, returns, warnings>>

NextRescan ==
    \/ SkipDraft
    \/ EnterEnvs
    \/ EnvMatch
    \/ LeaveEnvs
    \/ StartRescan
    \/ FinishRescan

RescanItems ==
    { Marker(K_thm),
      <<"[">> \o Marker(K_thm) \o RBR,
      <<"{", "a", "}">>,
      <<"[", "T", "]">>,
      LB2,
      RB2 }

InitRescan ==
    InitWith({Config(None, <<>>)},
             {BookOf(P_groups, t[1], P_bls, t[2]) : t \in TextPairs(RescanItems, MaxItems)})

SpecRescan == InitRescan /\ [][NextRescan]_vars

-----------------------------------------------------------------------------
(* Reading the log.                                                        *)
LogIdx == 1..Len(log)
IsEnvCall(r) == r.reftype = None
IsRefCall(r) == r.reftype # None
NonDraft == {i \in 1..Len(book) : ~is_draft_chapter(book[i])}
Returned(pass) == {returns[i].chap : i \in {j \in 1..Len(returns) : returns[j].pass = pass}}

(* The prefix and path a declaration of chapter c is rendered with.        *)
PrefixOfChap(c) == PrefixOf(book[c])
PathOfChap(c) == Unwrap(book[c].path)

(* The registry entry a declaration's closure call stands for.             *)
InfoOfCall(r) ==
    [num_name |-> environments[r.key].name \o SP \o PrefixOfChap(r.chap) \o Decimal(r.ctr),
     path     |-> PathOfChap(r.chap),
     title    |-> r.title]

(* The first declaration in processing order that carries label l.         *)
FirstDecl(l) ==
    MinOf({i \in LogIdx : IsEnvCall(log[i]) /\ log[i].label = Some(l)})

DeclaredLabels == {Unwrap(log[i].label) : i \in {j \in LogIdx : IsEnvCall(log[j]) /\ IsSome(log[j].label)}}

-----------------------------------------------------------------------------
(* The registry holds exactly the declared labels, each with the entry of  *)
(* its first declaration.                                                  *)
C1_RegistryIsFirstDeclaration ==
    /\ DOMAIN refs = DeclaredLabels
    /\ \A l \in DOMAIN refs : refs[l] = InfoOfCall(log[FirstDecl(l)])

(* A step keeps every entry the registry holds.                            *)
C1_EntryKept ==
    \A l \in DOMAIN refs : l \in DOMAIN refs' /\ refs'[l] = refs[l]

(* C1: once a label has an entry in the label registry, no step changes or *)
(* removes that entry, and in every state the entry of each label is that  *)
(* of the first declaration of the label in processing order (document     *)
(* order, then left to right), whatever later declarations reuse it.       *)
C1_FirstDeclarationWins ==
    []C1_RegistryIsFirstDeclaration /\ [][C1_EntryKept]_vars

(* A label declared in the first chapter and declared again, as another    *)
(* kind and without the title, in the last one.                            *)
C1_Witness ==
    /\ pc = "done"
    /\ \E i, j \in LogIdx :
         /\ i < j
         /\ IsEnvCall(log[i]) /\ IsEnvCall(log[j])
         /\ IsSome(log[i].label) /\ log[i].label = log[j].label
         /\ log[i].chap # log[j].chap
         /\ log[i].key # log[j].key
         /\ log[i].title # log[j].title
         /\ log[j].known

-----------------------------------------------------------------------------
(* C2: whenever pass two has started (a chapter is being, or has been,     *)
(* reference-resolved), find_and_replace_envs has returned for every       *)
(* non-draft chapter; and a reference whose label some non-draft chapter   *)
(* declares, before or after the referencing chapter, is replaced by a     *)
(* link to the label and never by the placeholder.                         *)
C2_PassOneBeforePassTwo ==
    /\ (pc = "refs" \/ Returned("refs") # {}) => Returned("envs") = NonDraft
    /\ \A i \in LogIdx :
         (IsRefCall(log[i]) /\ Unwrap(log[i].label) \in DeclaredLabels)
         => /\ log[i].known
            /\ log[i].repl # PLACEHOLDER
            /\ Head(log[i].repl) = "["
            /\ SubSeq(log[i].repl, Len(log[i].repl) - Len(Unwrap(log[i].label)) - 1,
                      Len(log[i].repl))
               = <<"#">> \o Unwrap(log[i].label) \o <<")">>

(* A reference in the first chapter to a label only the last declares.     *)
C2_Witness ==
    /\ pc = "done"
    /\ \E i, j \in LogIdx :
         /\ IsEnvCall(log[i]) /\ IsRefCall(log[j])
         /\ log[i].label = log[j].label
         /\ log[i].chap > log[j].chap
         /\ log[j].known
         /\ \A k \in LogIdx : (IsEnvCall(log[k]) /\ log[k].label = log[j].label)
                              => log[k].chap > log[j].chap

-----------------------------------------------------------------------------
(* How many closure calls of the kind of call j its scan has made up to j. *)
NthOfKind(j) ==
    Cardinality({i \in 1..j : /\ IsEnvCall(log[i])
                              /\ log[i].pass = log[j].pass
                              /\ log[i].chap = log[j].chap
                              /\ log[i].key = log[j].key})

IsSuffix(t, s) ==
    /\ Len(t) <= Len(s)
    /\ SubSeq(s, Len(s) - Len(t) + 1, Len(s)) = t

(* C3: in every chapter, the closure call for the i-th match of a kind is  *)
(* made with that kind's counter at i, the matches of other kinds, of      *)
(* earlier chapters and of duplicate labels notwithstanding, and the       *)
(* header it renders ends the replacement and carries the number i.        *)
C3_NumberedPerDocumentAndKind ==
    \A j \in LogIdx :
        IsEnvCall(log[j]) =>
            /\ log[j].ctr = NthOfKind(j)
            /\ LET e == environments[log[j].key]
                   n == e.name \o SP \o PrefixOfChap(log[j].chap) \o Decimal(NthOfKind(j))
               IN  IsSuffix(e.emph \o n
                            \o (IF IsSome(log[j].title)
                                THEN <<" ", "(">> \o Unwrap(log[j].title) \o <<")">>
                                ELSE <<>>)
                            \o <<".">> \o e.emph,
                            log[j].repl)

(* The last chapter's first theorem, after a lemma there and a theorem in  *)
(* the first chapter, reusing a label: it is numbered 1.                   *)
C3_Witness ==
    \E i, k, j \in LogIdx :
        /\ i < k /\ k < j
        /\ IsEnvCall(log[i]) /\ IsEnvCall(log[k]) /\ IsEnvCall(log[j])
        /\ log[i].chap < log[j].chap /\ log[k].chap = log[j].chap
        /\ log[i].key = log[j].key /\ log[k].key # log[j].key
        /\ log[j].known
        /\ log[j].ctr = 1

-----------------------------------------------------------------------------
(* C4: the replacement of a declaration is the anchor of its label         *)
(* followed by its own header when it carries a label marker, whether or   *)
(* not the label was registered before, and its own header alone when it   *)
(* carries none; so it begins with an anchor exactly when it has a label.  *)
C4_AnchorIffLabel ==
    \A j \in LogIdx :
        IsEnvCall(log[j]) =>
            LET r == log[j]
                h == Header(environments[r.key], PrefixOfChap(r.chap), r.ctr, r.title)
            IN  /\ IsSome(r.label)
                   => r.repl = ANCHOR_OPEN \o Unwrap(r.label) \o ANCHOR_CLOSE \o h
                /\ ~IsSome(r.label) => r.repl = h
                /\ IsPrefixAt(r.repl, 1, ANCHOR_OPEN) <=> IsSome(r.label)

(* A duplicate-label declaration and an unlabelled one have been replaced. *)
C4_Witness ==
    /\ \E j \in LogIdx : IsEnvCall(log[j]) /\ log[j].known
                         /\ IsPrefixAt(log[j].repl, 1, ANCHOR_OPEN)
    /\ \E j \in LogIdx : IsEnvCall(log[j]) /\ log[j].label = None
                         /\ IsSome(log[j].title)

-----------------------------------------------------------------------------
(* The link text of reference call r, from the registry entry.             *)
C5_Text(r) ==
    LET e == refs[Unwrap(r.label)]
    IN  IF Unwrap(r.reftype) = TREF /\ e.title # None THEN Unwrap(e.title) ELSE e.num_name

(* C5: a reference to a registered label is replaced by                    *)
(* [text](rel#label), rel being the relative path from the referencing     *)
(* chapter to the entry's chapter and text the entry's numbered name for   *)
(* ref:, and for tref: its title when it has one and its numbered name     *)
(* otherwise (what ref: gives).                                            *)
C5_LinkToRegisteredLabel ==
    \A j \in LogIdx :
        (IsRefCall(log[j]) /\ Unwrap(log[j].label) \in DOMAIN refs) =>
            LET r == log[j]
                e == refs[Unwrap(r.label)]
            IN  r.repl = <<"[">> \o C5_Text(r) \o <<"]", "(">>
                         \o Unwrap(compute_rel_path(PathOfChap(r.chap), e.path))
                         \o <<"#">> \o Unwrap(r.label) \o <<")">>

(* A tref: and a ref: to a label without a title, from another chapter,    *)
(* replaced by the same link.                                              *)
C5_Witness ==
    \E i, j \in LogIdx :
        /\ IsRefCall(log[i]) /\ IsRefCall(log[j])
        /\ log[i].reftype = Some(TREF) /\ log[j].reftype = Some(REF)
        /\ log[i].label = log[j].label
        /\ Unwrap(log[i].label) \in DOMAIN refs
        /\ refs[Unwrap(log[i].label)].title = None
        /\ refs[Unwrap(log[i].label)].path # PathOfChap(log[i].chap)
        /\ log[i].repl = log[j].repl

-----------------------------------------------------------------------------
RECURSIVE RefLabels(_)
RefLabels(s) ==
    LET m == FindRef(s)
    IN  IF m.ok THEN <<m.label>> \o RefLabels(SubSeq(s, m.end, Len(s))) ELSE <<>>

RefCallsOf(c) ==
    LET RECURSIVE From(_)
        From(i) == IF i > Len(log) THEN <<>>
                   ELSE (IF IsRefCall(log[i]) /\ log[i].chap = c
                         THEN <<Unwrap(log[i].label)>> ELSE <<>>) \o From(i + 1)
    IN  From(1)

UnknownCalls ==
    LET RECURSIVE From(_)
        From(i) == IF i > Len(log) THEN <<>>
                   ELSE (IF IsRefCall(log[i]) /\ ~log[i].known
                         THEN <<Unwrap(log[i].label)>> ELSE <<>>) \o From(i + 1)
    IN  From(1)

UnknownWarnings ==
    LET w == SelectSeq(warnings, LAMBDA x : x.kind = "unknown")
    IN  [i \in 1..Len(w) |-> w[i].label]

(* C6: a reference to a label that is not in the registry is replaced by   *)
(* exactly **[??]** and warned about, and nothing stops: the run never     *)
(* panics (the one way a step of run() can fail to lead to the next),      *)
(* every reference of a resolved chapter has had its closure call (those   *)
(* after an unknown one too), and when run() returns every non-draft       *)
(* chapter has been resolved and holds the text find_and_replace_refs      *)
(* returned.                                                               *)
C6_UnknownReferenceNotFatal ==
    /\ \A j \in LogIdx :
         (IsRefCall(log[j]) /\ Unwrap(log[j].label) \notin DOMAIN refs)
         => log[j].repl = <<"*", "*", "[", "?", "?", "]", "*", "*">>
    /\ UnknownWarnings = UnknownCalls
    /\ pc # "panic"
    /\ \A i \in 1..Len(returns) :
         returns[i].pass = "refs" => RefCallsOf(returns[i].chap) = RefLabels(returns[i].input)
    /\ pc = "done" =>
         /\ Returned("refs") = NonDraft
         /\ \A i \in 1..Len(returns) :
              returns[i].pass = "refs" => book[returns[i].chap].content = returns[i].output


(* The run is done: the first chapter held a reference to an unknown label *)
(* and the last chapter's reference was resolved to a link after it.       *)
C6_Witness ==
    /\ pc = "done"
    /\ \E i, j \in LogIdx :
         /\ i < j
         /\ IsRefCall(log[i]) /\ ~log[i].known /\ log[i].repl = PLACEHOLDER
         /\ IsRefCall(log[j]) /\ log[j].known
         /\ log[i].chap < log[j].chap

-----------------------------------------------------------------------------
(* What a step that changes the registry is and does.                      *)
C7_RegistryStep ==
    refs' # refs =>
        /\ pc = "envs" /\ active
        /\ Len(log') = Len(log) + 1
        /\ LET r == log'[Len(log')]
           IN  /\ IsEnvCall(r)
               /\ IsSome(r.label)
               /\ Unwrap(r.label) \notin DOMAIN refs
               /\ DOMAIN refs' = DOMAIN refs \cup {Unwrap(r.label)}
               /\ \A l \in DOMAIN refs : refs'[l] = refs[l]

(* C7: a step changes the label registry only if it is a closure call of   *)
(* find_and_replace_envs on a declaration that carries a label not yet     *)
(* registered, and then it only adds that label: the steps on              *)
(* declarations without a label marker and all the steps of                *)
(* find_and_replace_refs leave the registry as it is.                      *)
C7_RegistryFrame == [][C7_RegistryStep]_vars

(* The run is done with one label registered, after a declaration with a   *)
(* title and no label and a reference to an unknown label.                 *)
C7_Witness ==
    /\ pc = "done"
    /\ Cardinality(DOMAIN refs) = 1
    /\ \E j \in LogIdx : IsEnvCall(log[j]) /\ log[j].label = None /\ IsSome(log[j].title)
    /\ \E j \in LogIdx : IsRefCall(log[j]) /\ ~log[j].known

-----------------------------------------------------------------------------
(* C8 as stated: for every text, scanning the scanned text again finds no  *)
(* match and returns the text unchanged.                                   *)
C8_RescanIsNoOp ==
    /\ \A j \in LogIdx : log[j].pass # "rescan"
    /\ \A i \in 1..Len(returns) :
         returns[i].pass = "rescan" => returns[i].output = returns[i].input

(* Whether the title a declaration was matched with holds a kind marker.   *)
TitleHasMarker(r) ==
    /\ IsSome(r.title)
    /\ FindEnv(Unwrap(r.title), KeyAlternatives(environments)).ok

FirstScanClean(c) ==
    \A j \in LogIdx :
        (log[j].pass = "envs" /\ log[j].chap = c) => ~TitleHasMarker(log[j])

(* C8, amended: for every text none of whose declarations has a title that *)
(* holds a kind marker, scanning the scanned text again finds no match,    *)
(* returns the text unchanged, leaves every counter at zero and inserts    *)
(* nothing into the registry.                                              *)
C8_RescanIsNoOpWithoutMarkerInTitle ==
    /\ \A c \in NonDraft :
         FirstScanClean(c) =>
            /\ \A j \in LogIdx : ~(log[j].pass = "rescan" /\ log[j].chap = c)
            /\ \A i \in 1..Len(returns) :
                 (returns[i].pass = "rescan" /\ returns[i].chap = c)
                 => returns[i].output = returns[i].input
            /\ (pc = "rescan" /\ active /\ idx = c) => \A k \in DOMAIN counter : counter[k] = 0
    /\ (\A c \in NonDraft : FirstScanClean(c)) =>
         DOMAIN refs = {Unwrap(log[j].label) :
                          j \in {i \in LogIdx : log[i].pass = "envs" /\ IsSome(log[i].label)}}

(* Both chapters have been scanned twice; in one of them the first scan   *)
(* replaced a declaration with a label and a title (no title holding a     *)
(* marker), and the second scan was handed the text with the anchor and    *)
(* the header.                                                             *)
C8_Witness ==
    /\ pc = "done"
    /\ \A c \in NonDraft : FirstScanClean(c)
    /\ \E j \in LogIdx, i \in 1..Len(returns) :
         /\ log[j].pass = "envs" /\ IsSome(log[j].label) /\ IsSome(log[j].title)
         /\ returns[i].pass = "rescan" /\ returns[i].chap = log[j].chap
         /\ returns[i].input = log[j].repl

-----------------------------------------------------------------------------
(* The relative path written out on components, to compare with           *)
(* compute_rel_path.                                                       *)
RECURSIVE CommonPrefixLen(_, _)
CommonPrefixLen(x, y) ==
    IF x # <<>> /\ y # <<>> /\ Head(x) = Head(y)
    THEN 1 + CommonPrefixLen(Tail(x), Tail(y))
    ELSE 0

JoinWithSep(c) ==
    [i \in 1..(2 * Len(c) - 1) |-> IF i % 2 = 1 THEN c[(i + 1) \div 2] ELSE "/"]

DotDotWalk(from, to) ==
    LET f   == Components(from)
        t   == Components(to)
        dir == SubSeq(f, 1, Len(f) - 1)
        n   == CommonPrefixLen(dir, t)
    IN  JoinWithSep([i \in 1..(Len(dir) - n) |-> ".."] \o SubSeq(t, n + 1, Len(t)))

(* C9: the relative path of a link is empty exactly when the referencing   *)
(* chapter and the label's chapter have the same path (the same            *)
(* components, doubled separators adding none); otherwise it is one ".."   *)
(* for every directory of the referencing chapter below the common prefix, *)
(* followed by the components of the label's chapter after that prefix.    *)
C9_RelativePath ==
    \A j \in LogIdx :
        (IsRefCall(log[j]) /\ log[j].known) =>
            LET r    == log[j]
                from == PathOfChap(r.chap)
                to   == refs[Unwrap(r.label)].path
                same == Components(from) = Components(to)
                rel  == IF same THEN <<>> ELSE DotDotWalk(from, to)
            IN  /\ r.repl = <<"[">> \o C5_Text(r) \o <<"]", "(">> \o rel \o <<"#">>
                            \o Unwrap(r.label) \o <<")">>
                /\ same <=> compute_rel_path(from, to) = Some(<<>>)
                /\ same <=> IsSuffix(<<"]", "(", "#">> \o Unwrap(r.label) \o <<")">>, r.repl)

(* The run is done: the reference in the declaring chapter became          *)
(* [..](#a), and the one in a chapter whose path has doubled separators    *)
(* and two directories of its own became a link that walks up twice.       *)
C9_Witness ==
    /\ pc = "done"
    /\ \E j \in LogIdx :
         /\ IsRefCall(log[j]) /\ log[j].known
         /\ refs[Unwrap(log[j].label)].path = PathOfChap(log[j].chap)
         /\ IsSuffix(<<"]", "(", "#", "a", ")">>, log[j].repl)
    /\ \E j \in LogIdx :
         /\ IsRefCall(log[j]) /\ log[j].known
         /\ \E k \in 1..(Len(PathOfChap(log[j].chap)) - 1) :
              PathOfChap(log[j].chap)[k] = SEP /\ PathOfChap(log[j].chap)[k + 1] = SEP
         /\ \E k \in 1..(Len(log[j].repl) - 4) :
              SubSeq(log[j].repl, k, k + 4) = <<"(", "..", "/", "..", "/">>

-----------------------------------------------------------------------------
(* C10: for every registry the configuration can produce and every text,   *)
(* the key captured by a match of the environment pattern is a key of the  *)
(* registry, so that neither lookup of the closure fails; and a text in    *)
(* which nothing matched is returned as it was.                            *)
C10_CapturedKeyIsRegistryKey ==
    /\ pc # "panic"
    /\ (pc = "envs" /\ active) =>
         LET caps == FindEnv(rest, KeyAlternatives(environments))
         IN  caps.ok => (caps.key \in DOMAIN environments /\ caps.key \in DOMAIN counter)
    /\ \A j \in LogIdx : IsEnvCall(log[j]) => log[j].key \in DOMAIN environments
    /\ \A i \in 1..Len(returns) :
         (/\ returns[i].pass = "envs"
          /\ \A j \in LogIdx : ~(IsEnvCall(log[j]) /\ log[j].chap = returns[i].chap))
         => returns[i].output = returns[i].input

====
